---- MODULE Spec2Model ----
(***************************************************************************)
(* Model of data/index_private_nano.py (the XRootD crawler that indexes    *)
(* privately produced NanoAOD files) and of processors/objects.py.         *)
(*                                                                         *)
(* Strings are sequences of tokens: a token is a piece of text that the    *)
(* program never looks inside.  Python's `in`, endswith, split and replace *)
(* become the corresponding operations on token sequences, so that         *)
(* "MuonEG" = <<"Muon","EG">> really contains "Muon" = <<"Muon">>.         *)
(***************************************************************************)
EXTENDS Integers, Sequences, FiniteSets, TLC

(***************************************************************************)
(* String operations                                                       *)
(***************************************************************************)

\* s[i..i+Len(p)-1] = p
MatchAt(s, p, i) ==
    /\ i + Len(p) - 1 <= Len(s)
    /\ \A j \in 1..Len(p) : s[i + j - 1] = p[j]

\* Python: p in s
Contains(s, p) == \E i \in 1..(Len(s) + 1) : MatchAt(s, p, i)

\* Python: s.endswith(p)
EndsWith(s, p) == Len(p) <= Len(s) /\ MatchAt(s, p, Len(s) - Len(p) + 1)

\* index of the first occurrence of p in s, 0 when there is none
FirstAt(s, p) ==
    IF Contains(s, p)
    THEN CHOOSE i \in 1..(Len(s) + 1) :
            MatchAt(s, p, i) /\ \A k \in 1..(i - 1) : ~MatchAt(s, p, k)
    ELSE 0

\* Python: s.split(p)[0]
SplitHead(s, p) == IF FirstAt(s, p) = 0 THEN s ELSE SubSeq(s, 1, FirstAt(s, p) - 1)

\* Python: s.replace(p, r), every non-overlapping occurrence, left to right
RECURSIVE Replace(_, _, _)
Replace(s, p, r) ==
    IF FirstAt(s, p) = 0 THEN s
    ELSE SubSeq(s, 1, FirstAt(s, p) - 1) \o r
         \o Replace(SubSeq(s, FirstAt(s, p) + Len(p), Len(s)), p, r)

\* Python: any(x in s for x in ps)
ContainsAny(s, ps) == \E p \in ps : Contains(s, p)

(***************************************************************************)
(* _get_sample_from_subsample                                              *)
(***************************************************************************)

Label(l) == [ok |-> TRUE, sample |-> <<l>>]

\* a variant of ValueError that raises nothing and returns a catch-all label
ValueErrorSwallowed(name) == [ok |-> TRUE, sample |-> <<"Unknown">>]

\* raise ValueError(f"Could not determine sample from subsample name: {name}...")
ValueError(name) == [ok |-> FALSE, msg |-> name]

\* the data branch, lines 49-68
ClassifyData(n) ==
    IF Contains(n, <<"JetHT">>) \/ Contains(n, <<"JetMET">>) THEN Label("JetMET")
    ELSE IF Contains(n, <<"EGamma">>) THEN Label("EGamma")
    ELSE IF Contains(n, <<"Muon">>) THEN Label("Muon")
    ELSE IF Contains(n, <<"Tau">>) THEN Label("Tau")
    ELSE IF Contains(n, <<"BTagMu">>) THEN Label("BTagMu")
    ELSE IF Contains(n, <<"Muon", "EG">>) THEN Label("MuonEG")
    ELSE IF Contains(n, <<"Parking", "VBF">>) THEN Label("ParkingVBF")
    ELSE IF Contains(n, <<"Parking", "Single", "Muon">>) THEN Label("ParkingSingleMuon")
    ELSE ValueError(n)

\* the MC branch, lines 70-105
ClassifyMC(n) ==
    IF Contains(n, <<"H", "Hto", "4B">>) \/ Contains(n, <<"H", "Hto", "2B", "2", "Tau">>)
    THEN IF Contains(n, <<"VBF">>)
         THEN IF Contains(n, <<"2B", "2", "Tau">>) THEN Label("HHbbtt") ELSE Label("HH4b")
         ELSE IF Contains(n, <<"2B", "2", "Tau">>) THEN Label("HHbbtt") ELSE Label("HH4b")
    ELSE IF Contains(n, <<"Hto", "2B">>) THEN Label("Hbb")
    ELSE IF Contains(n, <<"Hto", "2C">>) THEN Label("Hcc")
    ELSE IF Contains(n, <<"Hto", "2", "Tau">>) \/ Contains(n, <<"HTo", "2", "Tau">>)
         THEN Label("Htautau")
    ELSE IF Contains(n, <<"QCD", "-4Jets", "_HT">>) THEN Label("QCD")
    ELSE IF Contains(n, <<"QCD", "_PT">>) THEN Label("QCD_PT")
    ELSE IF Contains(n, <<"TTto">>) THEN Label("TT")
    ELSE IF ContainsAny(n, {<<"TbarWplus">>, <<"TWminus">>, <<"TbarBQ">>, <<"TBbarQ">>})
         THEN Label("SingleTop")
    ELSE IF Contains(n, <<"DYto2L", "-4Jets">>) THEN Label("DYJetsLO")
    ELSE IF Contains(n, <<"DYto2L", "-2Jets">>) THEN Label("DYJetsNLO")
    ELSE IF ContainsAny(n, {<<"Wto2Q", "-3Jets">>, <<"WtoLNu", "-4Jets">>, <<"Zto2Q", "-4Jets">>})
         THEN Label("VJetsLO")
    ELSE IF ContainsAny(n, {<<"Wto2Q", "-2Jets">>, <<"WtoLNu", "-2Jets">>, <<"Zto2Q", "-2Jets">>})
         THEN Label("VJetsNLO")
    ELSE IF ContainsAny(n, {<<"WW", "_">>, <<"WZ", "_">>, <<"ZZ", "_">>, <<"WW", "to4Q">>,
                            <<"WW", "toLNu2Q">>, <<"WZ", "to3LNu">>, <<"WZ", "to4Q">>,
                            <<"ZZ", "to2L2Q">>, <<"ZZ", "to4L">>})
         THEN Label("Diboson")
    ELSE IF ContainsAny(n, {<<"VBF", "Zto2Q">>, <<"VBF", "Wto2Q">>, <<"VBF", "to2L">>,
                            <<"VBF", "to2Nu">>, <<"VBF", "toLNu">>})
         THEN Label("EWKV")
    ELSE IF ContainsAny(n, {<<"WGtoLNuG">>, <<"WGto2QG">>, <<"ZGto2NuG">>, <<"ZGto2QG">>})
         THEN Label("VGamma")
    ELSE ValueError(n)

\* a variant of GetSampleFromSubsample that applies the MC rules to every name
GetSampleIgnoringGroup(subsample_name, is_data) == ClassifyMC(subsample_name)

\* _get_sample_from_subsample(subsample_name, is_data)
GetSampleFromSubsample(subsample_name, is_data) ==
    IF is_data THEN ClassifyData(subsample_name) ELSE ClassifyMC(subsample_name)

\* hh_vars.DATA_SAMPLES, the configured set of data-sample names
DATA_SAMPLES == {<<"JetMET">>, <<"Muon">>, <<"EGamma">>, <<"Tau">>}

(***************************************************************************)
(* jetid_v12 and jetid_v14 (processors/objects.py)                         *)
(*                                                                         *)
(* A floating-point field of a jet is a number of thousandths or           *)
(* not-a-number; every comparison with not-a-number is false.              *)
(***************************************************************************)

Num(v) == [nan |-> FALSE, v |-> v]
NaN == [nan |-> TRUE, v |-> 0]

\* np.abs
Abs(x) == IF x.nan THEN x ELSE Num(IF x.v < 0 THEN 0 - x.v ELSE x.v)

\* x < c, x <= c, x > c for a float x and a constant c in thousandths
Lt(x, c) == ~x.nan /\ x.v < c
Le(x, c) == ~x.nan /\ x.v <= c
Gt(x, c) == ~x.nan /\ x.v > c

\* (jets.jetId & 2) == 2
TightBit(jetId) == (jetId \div 2) % 2 = 1

\* a variant of LepVeto that does not ask for the tight flag above |eta| 2.7
LepVetoWithoutTight(j, jetidtight) ==
    \/ Le(Abs(j.eta), 2700) /\ jetidtight /\ Lt(j.muEF, 800) /\ Lt(j.chEmEF, 800)
    \/ Gt(Abs(j.eta), 2700)

\* lines 26-28 and 57-59: jetidtightlepveto
LepVeto(j, jetidtight) ==
    \/ Le(Abs(j.eta), 2700) /\ jetidtight /\ Lt(j.muEF, 800) /\ Lt(j.chEmEF, 800)
    \/ Gt(Abs(j.eta), 2700) /\ jetidtight

\* lines 15-24: jetidtight of jetid_v12
TightV12(j) ==
    LET jetidtightbit == TightBit(j.jetId)
    IN  \/ Le(Abs(j.eta), 2700) /\ jetidtightbit
        \/ /\ Gt(Abs(j.eta), 2700) /\ Le(Abs(j.eta), 3000)
           /\ jetidtightbit
           /\ Lt(j.neHEF, 990)
        \/ Gt(Abs(j.eta), 3000) /\ jetidtightbit /\ Lt(j.neEmEF, 400)

\* lines 39-55: jetidtight of jetid_v14
TightV14(j) ==
    \/ /\ Le(Abs(j.eta), 2600)
       /\ Lt(j.neHEF, 990)
       /\ Lt(j.neEmEF, 900)
       /\ j.chMultiplicity + j.neMultiplicity > 1
       /\ Gt(j.chHEF, 10)
       /\ j.chMultiplicity > 0
    \/ /\ Gt(Abs(j.eta), 2600) /\ Le(Abs(j.eta), 2700)
       /\ Lt(j.neHEF, 900)
       /\ Lt(j.neEmEF, 990)
    \/ Gt(Abs(j.eta), 2700) /\ Le(Abs(j.eta), 3000) /\ Lt(j.neHEF, 990)
    \/ Gt(Abs(j.eta), 3000) /\ j.neMultiplicity >= 2 /\ Lt(j.neEmEF, 400)

\* jetid_v12: return jetidtight, jetidtightlepveto
JetidV12(j) ==
    [jetidtight |-> TightV12(j), jetidtightlepveto |-> LepVeto(j, TightV12(j))]

\* jetid_v14: return jetidtight, jetidtightlepveto
JetidV14(j) ==
    [jetidtight |-> TightV14(j), jetidtightlepveto |-> LepVeto(j, TightV14(j))]

(***************************************************************************)
(* Names the crawler builds                                                *)
(***************************************************************************)

\* subsample.split("_TuneCP5")[0].split("_LHEweights")[0], lines 200 and 278
CleanName(subsample) == SplitHead(SplitHead(subsample, <<"_TuneCP5">>), <<"_LHEweights">>)

BadCVDash == <<"VBF", "H", "Hto", "4B", "_CV", "-", "m", "2p12">>
BadCVUnder == <<"VBF", "H", "Hto", "4B", "_CV", "_", "m", "2p12">>

\* lines 238-244: the mislabelled VBFHHto4B_CV-m2p12 is stored as CV-2p12
RenameMislabelled(subsample_name) ==
    IF Contains(subsample_name, BadCVDash) \/ Contains(subsample_name, BadCVUnder)
    THEN Replace(Replace(subsample_name, BadCVDash,
                         <<"VBF", "H", "Hto", "4B", "_CV", "-", "2p12">>),
                 BadCVUnder, <<"VBF", "H", "Hto", "4B", "_CV", "_", "2p12">>)
    ELSE subsample_name
\* a variant of DataKey that keeps the _DAZSLE_PFNano suffix
DataKeyUnstripped(sample, f1) == sample \o <<"_">> \o f1

\* lines 228-229: f"{sample}_{f1.replace('_DAZSLE_PFNano', '')}"
DataKey(sample, f1) == sample \o <<"_">> \o Replace(f1, <<"_DAZSLE_PFNano">>, <<>>)

\* f"data_{year}", f"mc_{year}", lines 168 and 178
DataDirName(year) == <<"data_">> \o year
McDirName(year) == <<"mc_">> \o year

Redirector == <<"root://cmseos.fnal.gov/">>

RECURSIVE PathStr(_)
\* str(path) of a path below base_dir: the components joined by "/"
PathStr(path) ==
    IF path = <<>> THEN <<"/store">>
    ELSE PathStr(SubSeq(path, 1, Len(path) - 1)) \o <<"/">> \o path[Len(path)]

\* f"{redirector}{f3path!s}/{f}", lines 224 and 304
Url(f3path, f) == Redirector \o PathStr(f3path) \o <<"/">> \o f

RootSuffix == <<".root">>
RECURSIVE RootUrlsAnywhere(_, _)
\* a variant of RootUrls that keeps the names that contain ".root" anywhere
RootUrlsAnywhere(f3path, contents) ==
    IF contents = <<>> THEN <<>>
    ELSE (IF Contains(contents[1], <<".root">>) THEN <<Url(f3path, contents[1])>> ELSE <<>>)
         \o RootUrlsAnywhere(f3path, Tail(contents))

RECURSIVE RootUrls(_, _)
\* [f"{redirector}{f3path!s}/{f}" for f in contents if f.endswith(".root")]
RootUrls(f3path, contents) ==
    IF contents = <<>> THEN <<>>
    ELSE (IF EndsWith(contents[1], RootSuffix) THEN <<Url(f3path, contents[1])>> ELSE <<>>)
         \o RootUrls(f3path, Tail(contents))

(***************************************************************************)
(* The remote store and the crawler's state                                *)
(***************************************************************************)

VARIABLES
    fs,               \* the remote store below base_dir: a tree of entries
    disk,             \* the persisted catalogs {out_name}_{year}.json: year -> YearEntry
    append,           \* args.append
    users,            \* the users argument (a list of names)
    years,            \* the years argument
    samples,          \* the samples filter, or None
    subsamples,       \* the caller-supplied subsample list, or None
    overwrite_sample, \* the overwrite_sample flag
    pc,               \* where the program is
    files,            \* the catalog accumulator: year -> sample -> key -> list of URLs
    use_new_structure,
    ui, yi,           \* position in the user loop and in the year loop
    is_data,          \* NEW layout: the pass being made over the year
    tsamples, sai,    \* OLD layout: the sample list and the position in it
    tsubsamples, si,  \* the subsample list and the position in it
    tfiles,           \* the local variable tfiles
    result,           \* what xrootd_index_private_nano returned
    error,            \* the exception that ended the program, if any
    prior,            \* history: the catalog the crawl started from
    written,          \* history: the (year, sample, key) stored by this crawl
    reached,          \* history: the (year, sample) whose SampleEntry this crawl set up
    last,             \* history: what the last step did
    calls,            \* history: the paths passed to _dirlist, in call order
    cin,              \* a direct call of _get_sample_from_subsample: its arguments
    cout,             \* ... and its outcome
    prev,             \* history: the direct call made before it
    jets,             \* a call of jetid_v12 or jetid_v14: the jet it is given
    jout              \* ... and the two flags it returns

vars == <<fs, disk, append, users, years, samples, subsamples, overwrite_sample, pc, files,
          use_new_structure, ui, yi, is_data, tsamples, sai, tsubsamples, si, tfiles,
          result, error, prior, written, reached, last, calls, cin, cout, prev,
          jets, jout>>

\* the state of the direct calls of _get_sample_from_subsample
cvars == <<cin, cout, prev>>

\* the state of the calls of jetid_v12 and jetid_v14
jvars == <<jets, jout>>

\* an optional value: None, or a value
None == [some |-> FALSE, val |-> <<>>]
Some(v) == [some |-> TRUE, val |-> v]

\* a local list variable: not assigned yet, or bound to a list
Unbound == [bound |-> FALSE, list |-> <<>>]
Bound(l) == [bound |-> TRUE, list |-> l]

\* An entry of the store.  ok = FALSE: listing it fails (status.ok is false).
Dir(name, kids) == [name |-> name, ok |-> TRUE, kids |-> kids]
Bad(name) == [name |-> name, ok |-> FALSE, kids |-> <<>>]
File(name) == Bad(name)

Names(kids) == [i \in 1..Len(kids) |-> kids[i].name]

RECURSIVE Lookup(_, _)
\* the entry at path below node, or an entry that cannot be listed
Lookup(node, path) ==
    IF path = <<>> THEN node
    ELSE IF node.ok /\ \E i \in 1..Len(node.kids) : node.kids[i].name = path[1]
         THEN Lookup(node.kids[CHOOSE i \in 1..Len(node.kids) : node.kids[i].name = path[1]],
                     Tail(path))
         ELSE Bad(path[Len(path)])

\* _dirlist(fs, base_dir / path): the names, or FileNotFoundError
Dirlist(path) ==
    LET node == Lookup(fs, path)
    IN  IF node.ok THEN [ok |-> TRUE, names |-> Names(node.kids)]
        ELSE [ok |-> FALSE, names |-> <<>>]
\* a variant of HasNewStructure that looks for the first year only
HasNewStructureFirstYear(user, ys) ==
    LET user_contents == Dirlist(<<user>>)
    IN  user_contents.ok /\ Len(ys) > 0
        /\ \E k \in 1..Len(user_contents.names) :
              user_contents.names[k] \in {DataDirName(ys[1]), McDirName(ys[1])}

\* _has_new_structure(fs, base_dir, user, years)
HasNewStructure(user, ys) ==
    LET user_contents == Dirlist(<<user>>)
    IN  IF ~user_contents.ok THEN FALSE
        ELSE \E i \in 1..Len(ys) :
                \/ \E k \in 1..Len(user_contents.names) :
                      user_contents.names[k] = DataDirName(ys[i])
                \/ \E k \in 1..Len(user_contents.names) :
                      user_contents.names[k] = McDirName(ys[i])

(***************************************************************************)
(* The catalog: nested dictionaries as functions                           *)
(***************************************************************************)

EmptyDict == [k \in {} |-> <<>>]

Has(d, k) == k \in DOMAIN d

\* d[k] = v
Put(d, k, v) == [x \in (DOMAIN d) \cup {k} |-> IF x = k THEN v ELSE d[x]]

\* files[year][sample] = entry
PutSample(f, year, sample, entry) == Put(f, year, Put(f[year], sample, entry))

\* files[year][sample][key] = list
PutKey(f, year, sample, key, list) ==
    PutSample(f, year, sample, Put(f[year][sample], key, list))

(***************************************************************************)
(* The descent below one subsample, NEW layout (lines 212-250)             *)
(***************************************************************************)

\* the listings of a descent, put after those issued before it
After(first, r) == [r EXCEPT !.calls = first \o @]

RECURSIVE NewChunks(_, _, _)
\* lines 219-224: for f3 in <f3s>: tfiles += the .root URLs of f3path
NewChunks(f2path, f3s, tf) ==
    IF f3s = <<>> THEN [ok |-> TRUE, tf |-> tf, calls |-> <<>>]
    ELSE LET f3path == Append(f2path, f3s[1])
             f3_contents == Dirlist(f3path)
         IN  IF ~f3_contents.ok THEN [ok |-> FALSE, tf |-> tf, calls |-> <<f3path>>]
             ELSE After(<<f3path>>,
                        NewChunks(f2path, Tail(f3s),
                                  tf \o RootUrls(f3path, f3_contents.names)))

RECURSIVE NewTimestamps(_, _, _)
\* lines 217-218: the timestamp loop once the chunks r of f2s[1] are crawled
NewTimestampsRest(f1path, f2s, r) ==
    IF ~r.ok THEN r
    ELSE After(r.calls, NewTimestamps(f1path, Tail(f2s), r.tf))

\* lines 217-224: for f2 in <f2s>: ...
NewTimestamps(f1path, f2s, tf) ==
    IF f2s = <<>> THEN [ok |-> TRUE, tf |-> tf, calls |-> <<>>]
    ELSE LET f2path == Append(f1path, f2s[1])
             l == Dirlist(f2path)
         IN  IF ~l.ok THEN [ok |-> FALSE, tf |-> tf, calls |-> <<f2path>>]
             ELSE After(<<f2path>>,
                        NewTimestampsRest(f1path, f2s, NewChunks(f2path, l.names, tf)))

\* a variant of ExtendKey that assigns the new list instead of extending the old one
ExtendKeyReplaces(f, year, sample, key, tf) == PutKey(f, year, sample, key, tf)

\* lines 231-233: files[year][sample][subsample_key].extend(tfiles)
ExtendKey(f, year, sample, key, tf) ==
    PutKey(f, year, sample, key,
           (IF Has(f[year][sample], key) THEN f[year][sample][key] ELSE <<>>) \o tf)

RECURSIVE NewDatasets(_, _, _, _, _, _, _, _)
\* lines 226-234: the dataset-version loop once the timestamps r of f1s[1] are
\* crawled: for data the key is stored; then the next dataset-version directory
NewDatasetsRest(spath, f1s, data, year, sample, f, ks, r) ==
    IF ~r.ok
    THEN [exc |-> "FileNotFoundError", files |-> f, tfiles |-> Bound(r.tf),
          keys |-> ks, calls |-> r.calls]
    ELSE After(r.calls,
               IF data
               THEN NewDatasets(spath, Tail(f1s), data, year, sample,
                                ExtendKey(f, year, sample, DataKey(sample, f1s[1]), r.tf),
                                Bound(r.tf), ks \cup {DataKey(sample, f1s[1])})
               ELSE NewDatasets(spath, Tail(f1s), data, year, sample, f, Bound(r.tf), ks))

\* lines 213-234: for f1 in <f1s>: tfiles = []; collect; store the data key
\* (ks: the keys stored so far)
NewDatasets(spath, f1s, data, year, sample, f, tf, ks) ==
    IF f1s = <<>>
    THEN [exc |-> "none", files |-> f, tfiles |-> tf, keys |-> ks, calls |-> <<>>]
    ELSE LET f1path == Append(spath, f1s[1])
             l == Dirlist(f1path)
         IN  IF ~l.ok
             THEN [exc |-> "FileNotFoundError", files |-> f, tfiles |-> Bound(<<>>),
                   keys |-> ks, calls |-> <<f1path>>]
             ELSE After(<<f1path>>,
                        NewDatasetsRest(spath, f1s, data, year, sample, f, ks,
                                        NewTimestamps(f1path, l.names, <<>>)))

\* line 245: files[year][sample][subsample_name] = tfiles
StoreMC(f, year, sample, key, tf) == PutKey(f, year, sample, key, tf)

\* lines 236-246: after the loops r over the dataset-version directories: for MC
\* the list collected last is stored under the subsample's name
NewWalkStore(data, year, sample, subsample_name, r) ==
    IF r.exc # "none" \/ data THEN r
    ELSE IF ~r.tfiles.bound
    THEN [exc |-> "UnboundLocalError", files |-> r.files, tfiles |-> r.tfiles,
          keys |-> {}, calls |-> r.calls]
    ELSE [exc |-> "none",
          files |-> StoreMC(r.files, year, sample,
                            RenameMislabelled(subsample_name), r.tfiles.list),
          tfiles |-> r.tfiles,
          keys |-> {RenameMislabelled(subsample_name)},
          calls |-> r.calls]

\* lines 212-250: the try block of one subsample
NewWalk(spath, data, year, sample, subsample_name, f, tf) ==
    LET l == Dirlist(spath)
    IN  IF ~l.ok
        THEN [exc |-> "FileNotFoundError", files |-> f, tfiles |-> tf, keys |-> {},
              calls |-> <<spath>>]
        ELSE After(<<spath>>,
                   NewWalkStore(data, year, sample, subsample_name,
                                NewDatasets(spath, l.names, data, year, sample, f, tf, {})))

(***************************************************************************)
(* The descent below one subsample, OLD layout (lines 287-319)             *)
(***************************************************************************)

RECURSIVE OldChunks(_, _, _)
\* lines 301-307
OldChunks(f2path, f3s, tf) ==
    IF f3s = <<>> THEN [ok |-> TRUE, tf |-> tf, calls |-> <<>>]
    ELSE LET f3path == Append(f2path, f3s[1])
             l == Dirlist(f3path)
         IN  IF ~l.ok THEN [ok |-> FALSE, tf |-> tf, calls |-> <<f3path>>]
             ELSE After(<<f3path>>,
                        OldChunks(f2path, Tail(f3s), tf \o RootUrls(f3path, l.names)))

RECURSIVE OldTimestamps(_, _, _)
\* lines 298-300: the timestamp loop once the chunks r of f2s[1] are crawled
OldTimestampsRest(f1path, f2s, r) ==
    IF ~r.ok THEN [ok |-> FALSE, tfiles |-> Bound(r.tf), calls |-> r.calls]
    ELSE After(r.calls, OldTimestamps(f1path, Tail(f2s), Bound(r.tf)))

\* lines 298-307: for f2 in <f2s>: tfiles = []; ...
OldTimestamps(f1path, f2s, tf) ==
    IF f2s = <<>> THEN [ok |-> TRUE, tfiles |-> tf, calls |-> <<>>]
    ELSE LET f2path == Append(f1path, f2s[1])
             l == Dirlist(f2path)
         IN  IF ~l.ok THEN [ok |-> FALSE, tfiles |-> Bound(<<>>), calls |-> <<f2path>>]
             ELSE After(<<f2path>>,
                        OldTimestampsRest(f1path, f2s, OldChunks(f2path, l.names, <<>>)))

RECURSIVE OldDatasets(_, _, _, _, _, _, _, _)
\* lines 309-311: the dataset-version loop once the timestamps r of f1s[1] are
\* crawled: for data the list collected last is stored under f1; then the next
\* dataset-version directory
OldDatasetsRest(sspath, f1s, data, year, sample, f, ks, r) ==
    IF ~r.ok
    THEN [exc |-> "FileNotFoundError", files |-> f, tfiles |-> r.tfiles,
          keys |-> ks, calls |-> r.calls]
    ELSE IF data /\ ~r.tfiles.bound
    THEN [exc |-> "UnboundLocalError", files |-> f, tfiles |-> r.tfiles,
          keys |-> ks, calls |-> r.calls]
    ELSE After(r.calls,
               IF ~data
               THEN OldDatasets(sspath, Tail(f1s), data, year, sample, f, r.tfiles, ks)
               ELSE OldDatasets(sspath, Tail(f1s), data, year, sample,
                                PutKey(f, year, sample, f1s[1], r.tfiles.list),
                                r.tfiles, ks \cup {f1s[1]}))

\* lines 289-311: for f1 in <f1s>: collect; for data, files[year][sample][f1] = tfiles
\* (ks: the keys stored so far)
OldDatasets(sspath, f1s, data, year, sample, f, tf, ks) ==
    IF f1s = <<>>
    THEN [exc |-> "none", files |-> f, tfiles |-> tf, keys |-> ks, calls |-> <<>>]
    ELSE LET f1path == Append(sspath, f1s[1])
             l == Dirlist(f1path)
         IN  IF ~l.ok
             THEN [exc |-> "FileNotFoundError", files |-> f, tfiles |-> tf, keys |-> ks,
                   calls |-> <<f1path>>]
             ELSE After(<<f1path>>,
                        OldDatasetsRest(sspath, f1s, data, year, sample, f, ks,
                                        OldTimestamps(f1path, l.names, tf)))

\* lines 313-315: after the loops r over the dataset-version directories: for MC
\* the list collected last is stored under the subsample's name
OldWalkStore(data, year, sample, subsample_name, r) ==
    IF r.exc # "none" \/ data THEN r
    ELSE IF ~r.tfiles.bound
    THEN [exc |-> "UnboundLocalError", files |-> r.files, tfiles |-> r.tfiles,
          keys |-> {}, calls |-> r.calls]
    ELSE [exc |-> "none",
          files |-> PutKey(r.files, year, sample, subsample_name, r.tfiles.list),
          tfiles |-> r.tfiles,
          keys |-> {subsample_name},
          calls |-> r.calls]

\* lines 288-319: the try block of one subsample
OldWalk(sspath, data, year, sample, subsample_name, f, tf) ==
    LET l == Dirlist(sspath)
    IN  IF ~l.ok
        THEN [exc |-> "FileNotFoundError", files |-> f, tfiles |-> tf, keys |-> {},
              calls |-> <<sspath>>]
        ELSE After(<<sspath>>,
                   OldWalkStore(data, year, sample, subsample_name,
                                OldDatasets(sspath, l.names, data, year, sample, f, tf, {})))

(***************************************************************************)
(* The loops of xrootd_index_private_nano and of main                      *)
(***************************************************************************)

\* the position after the body of the year loop for (users[u], years[y]) ends
AfterYear(u, y) ==
    IF y < Len(years) THEN [pc |-> "year", ui |-> u, yi |-> y + 1]
    ELSE IF u < Len(users.val) THEN [pc |-> "year", ui |-> u + 1, yi |-> 1]
    ELSE [pc |-> "return", ui |-> 0, yi |-> 0]

NoStep == [act |-> "none", data |-> FALSE, year |-> <<>>, sample |-> <<>>,
           subsample |-> <<>>, index |-> 0, spath |-> <<>>, outcome |-> "none",
           reset |-> FALSE,
           dup |-> FALSE, keys |-> {}, before |-> EmptyDict, tbefore |-> Unbound,
           cbefore |-> <<>>]

\* main, lines 390-400, and the default of lines 145-146
MainLoad ==
    /\ pc = "load"
    /\ files' = IF append
                THEN [y \in {years[i] : i \in 1..Len(years)} \cap DOMAIN disk |-> disk[y]]
                ELSE EmptyDict
    /\ prior' = files'
    /\ pc' = "begin"
    /\ last' = [NoStep EXCEPT !.act = "load"]
    /\ UNCHANGED <<fs, disk, append, users, years, samples, subsamples, overwrite_sample,
                   use_new_structure, ui, yi, is_data, tsamples, sai, tsubsamples, si,
                   tfiles, result, error, written, reached, calls, cvars, jvars>>

\* lines 139-154: the users default and the layout check
Begin ==
    /\ pc = "begin"
    /\ LET l == Dirlist(<<>>)
           us == IF users.some THEN users.val ELSE l.names
       IN  IF ~users.some /\ ~l.ok
           THEN /\ pc' = "error"
                /\ error' = "FileNotFoundError"
                /\ calls' = Append(calls, <<>>)
                /\ UNCHANGED <<users, use_new_structure, ui, yi, result>>
           ELSE IF Len(us) > 0
           THEN /\ users' = Some(us)
                /\ use_new_structure' = HasNewStructure(us[1], years)
                /\ calls' = calls \o (IF users.some THEN <<>> ELSE <<<<>>>>) \o <<<<us[1]>>>>
                /\ IF Len(years) > 0
                   THEN pc' = "year" /\ ui' = 1 /\ yi' = 1
                   ELSE pc' = "return" /\ UNCHANGED <<ui, yi>>
                /\ UNCHANGED <<result, error>>
           ELSE /\ users' = Some(us)
                /\ result' = Some(EmptyDict)
                /\ calls' = calls \o (IF users.some THEN <<>> ELSE <<<<>>>>)
                /\ pc' = "save"
                /\ UNCHANGED <<use_new_structure, ui, yi, error>>
    /\ last' = [NoStep EXCEPT !.act = "begin", !.before = files, !.cbefore = calls]
    /\ UNCHANGED <<fs, disk, append, years, samples, subsamples, overwrite_sample, files,
                   is_data, tsamples, sai, tsubsamples, si, tfiles, prior, written,
                   reached, cvars, jvars>>

\* a variant of UseNewStructure that detects the layout of the user being crawled
UseNewStructurePerUser == HasNewStructure(users.val[ui], years)

\* line 164: if use_new_structure
UseNewStructure == use_new_structure

\* lines 159-164, NEW layout: enter the year, start the data pass
NewYear ==
    /\ pc = "year"
    /\ UseNewStructure
    /\ files' = IF Has(files, years[yi]) THEN files ELSE Put(files, years[yi], EmptyDict)
    /\ is_data' = TRUE
    /\ pc' = "pass"
    /\ last' = [NoStep EXCEPT !.act = "year", !.year = years[yi], !.before = files]
    /\ UNCHANGED <<fs, disk, append, users, years, samples, subsamples, overwrite_sample,
                   use_new_structure, ui, yi, tsamples, sai, tsubsamples, si, tfiles,
                   result, error, prior, written, reached, calls, cvars, jvars>>

\* the position after the pass is_data over (users[ui], years[yi]) ends
AfterPass(data) ==
    IF data THEN [pc |-> "pass", ui |-> ui, yi |-> yi, is_data |-> FALSE]
    ELSE [pc |-> AfterYear(ui, yi).pc, ui |-> AfterYear(ui, yi).ui,
          yi |-> AfterYear(ui, yi).yi, is_data |-> FALSE]

NewYPath(user, year, data) ==
    <<user, IF data THEN DataDirName(year) ELSE McDirName(year)>>

\* lines 166-180: the path of the pass and its subsample list
NewPass ==
    /\ pc = "pass"
    /\ LET ypath == NewYPath(users.val[ui], years[yi], is_data)
           l == Dirlist(ypath)
           ts == IF subsamples.some THEN subsamples.val ELSE l.names
       IN  /\ calls' = IF subsamples.some THEN calls ELSE Append(calls, ypath)
           /\ IF ~subsamples.some /\ ~l.ok
              THEN /\ pc' = "error"
                   /\ error' = "FileNotFoundError"
                   /\ UNCHANGED <<ui, yi, is_data, tsubsamples, si>>
              ELSE IF Len(ts) > 0
              THEN /\ tsubsamples' = ts
                   /\ si' = 1
                   /\ pc' = "nsub"
                   /\ UNCHANGED <<ui, yi, is_data, error>>
              ELSE /\ pc' = AfterPass(is_data).pc
                   /\ ui' = AfterPass(is_data).ui
                   /\ yi' = AfterPass(is_data).yi
                   /\ is_data' = AfterPass(is_data).is_data
                   /\ UNCHANGED <<tsubsamples, si, error>>
    /\ last' = [NoStep EXCEPT !.act = "pass", !.year = years[yi], !.data = is_data,
                              !.before = files, !.cbefore = calls]
    /\ UNCHANGED <<fs, disk, append, users, years, samples, subsamples, overwrite_sample,
                   files, use_new_structure, tsamples, sai, tfiles, result, prior,
                   written, reached, cvars, jvars>>

\* a variant of InitSample that empties the SampleEntry whatever overwrite_sample is
InitSampleAlwaysResets(f, year, sample) == PutSample(f, year, sample, EmptyDict)

\* lines 190-194: create the SampleEntry, or reset it when overwrite_sample
InitSample(f, year, sample) ==
    IF ~Has(f[year], sample) THEN PutSample(f, year, sample, EmptyDict)
    ELSE IF overwrite_sample THEN PutSample(f, year, sample, EmptyDict)
    ELSE f

\* the position after subsample number i of the NEW-layout list
AfterNewSub(i) ==
    IF i < Len(tsubsamples)
    THEN [pc |-> "nsub", ui |-> ui, yi |-> yi, is_data |-> is_data, si |-> i + 1]
    ELSE [pc |-> AfterPass(is_data).pc, ui |-> AfterPass(is_data).ui,
          yi |-> AfterPass(is_data).yi, is_data |-> AfterPass(is_data).is_data, si |-> 0]

\* lines 182-250: one subsample of the NEW layout
\* a variant that lets every sample through
SampleNeverExcluded(sample) == FALSE

\* line 187: a sample filter is configured and the sample is not in it
SampleExcluded(sample) ==
    samples.some /\ ~\E k \in 1..Len(samples.val) : samples.val[k] = sample

NewSubsample ==
    /\ pc = "nsub"
    /\ LET year == years[yi]
           subsample == tsubsamples[si]
           c == GetSampleFromSubsample(subsample, is_data)
           sample == c.sample
           f0 == InitSample(files, year, sample)
           spath == Append(NewYPath(users.val[ui], year, is_data), subsample)
           subsample_name == CleanName(subsample)
           w == NewWalk(spath, is_data, year, sample, subsample_name, f0, tfiles)
           step == [NoStep EXCEPT !.act = "sub", !.data = is_data, !.year = year,
                                  !.subsample = subsample, !.index = si, !.spath = spath,
                                  !.before = files, !.tbefore = tfiles,
                                  !.cbefore = calls]
           nxt == AfterNewSub(si)
       IN  IF ~c.ok
           THEN /\ pc' = "error"
                /\ error' = "ValueError"
                /\ last' = [step EXCEPT !.outcome = "error"]
                /\ UNCHANGED <<files, tfiles, ui, yi, is_data, si, written, reached, calls>>
           ELSE IF SampleExcluded(sample)
           THEN /\ pc' = nxt.pc /\ ui' = nxt.ui /\ yi' = nxt.yi
                /\ is_data' = nxt.is_data /\ si' = nxt.si
                /\ last' = [step EXCEPT !.outcome = "filtered", !.sample = sample]
                /\ UNCHANGED <<files, tfiles, error, written, reached, calls>>
           ELSE /\ files' = w.files
                /\ tfiles' = w.tfiles
                /\ calls' = calls \o w.calls
                /\ reached' = reached \cup {<<year, sample>>}
                /\ written' = written \cup
                      {[year |-> year, sample |-> sample, key |-> k,
                        kind |-> IF is_data THEN "new_data" ELSE "new_mc"] : k \in w.keys}
                /\ last' = [step EXCEPT
                       !.sample = sample,
                       !.reset = Has(files[year], sample) /\ overwrite_sample,
                       !.dup = ~is_data /\ Has(f0[year][sample], subsample_name),
                       !.keys = w.keys,
                       !.outcome = IF w.exc = "none" THEN "stored"
                                   ELSE IF w.exc = "FileNotFoundError" THEN "skipped"
                                   ELSE "error"]
                /\ IF w.exc = "UnboundLocalError"
                   THEN /\ pc' = "error"
                        /\ error' = "UnboundLocalError"
                        /\ UNCHANGED <<ui, yi, is_data, si>>
                   ELSE /\ pc' = nxt.pc /\ ui' = nxt.ui /\ yi' = nxt.yi
                        /\ is_data' = nxt.is_data /\ si' = nxt.si
                        /\ UNCHANGED error
    /\ UNCHANGED <<fs, disk, append, users, years, samples, subsamples, overwrite_sample,
                   use_new_structure, tsamples, sai, tsubsamples, result, prior, cvars, jvars>>

\* lines 159-162 and 253-258, OLD layout: enter the year, list its samples
OldYear ==
    /\ pc = "year"
    /\ ~UseNewStructure
    /\ files' = IF Has(files, years[yi]) THEN files ELSE Put(files, years[yi], EmptyDict)
    /\ LET ypath == <<users.val[ui], years[yi]>>
           l == Dirlist(ypath)
           ts == IF samples.some THEN samples.val ELSE l.names
       IN  /\ calls' = IF samples.some THEN calls ELSE Append(calls, ypath)
           /\ IF (~samples.some /\ ~l.ok) \/ Len(ts) = 0
              THEN /\ pc' = AfterYear(ui, yi).pc
                   /\ ui' = AfterYear(ui, yi).ui
                   /\ yi' = AfterYear(ui, yi).yi
                   /\ UNCHANGED <<tsamples, sai>>
              ELSE /\ tsamples' = ts
                   /\ sai' = 1
                   /\ pc' = "osample"
                   /\ UNCHANGED <<ui, yi>>
    /\ last' = [NoStep EXCEPT !.act = "year", !.year = years[yi], !.before = files]
    /\ UNCHANGED <<fs, disk, append, users, years, samples, subsamples, overwrite_sample,
                   use_new_structure, is_data, tsubsamples, si, tfiles, result, error,
                   prior, written, reached, cvars, jvars>>

\* the position after sample number i of the OLD-layout list
AfterOldSample(i) ==
    IF i < Len(tsamples)
    THEN [pc |-> "osample", ui |-> ui, yi |-> yi, sai |-> i + 1]
    ELSE [pc |-> AfterYear(ui, yi).pc, ui |-> AfterYear(ui, yi).ui,
          yi |-> AfterYear(ui, yi).yi, sai |-> 0]

\* lines 260-275: one sample of the OLD layout, up to its subsample list
OldSample ==
    /\ pc = "osample"
    /\ LET year == years[yi]
           sample == tsamples[sai]
           spath == <<users.val[ui], year, sample>>
           l == Dirlist(spath)
           ts == IF subsamples.some THEN subsamples.val ELSE l.names
           nxt == AfterOldSample(sai)
       IN  /\ files' = InitSample(files, year, sample)
           /\ calls' = IF subsamples.some THEN calls ELSE Append(calls, spath)
           /\ reached' = reached \cup {<<year, sample>>}
           /\ is_data' = (sample \in DATA_SAMPLES)
           /\ last' = [NoStep EXCEPT !.act = "sample", !.year = year, !.sample = sample,
                                     !.data = (sample \in DATA_SAMPLES), !.spath = spath,
                                     !.reset = Has(files[year], sample) /\ overwrite_sample,
                                     !.before = files, !.cbefore = calls]
           /\ IF (~subsamples.some /\ ~l.ok) \/ Len(ts) = 0
              THEN /\ pc' = nxt.pc /\ ui' = nxt.ui /\ yi' = nxt.yi /\ sai' = nxt.sai
                   /\ UNCHANGED <<tsubsamples, si>>
              ELSE /\ tsubsamples' = ts
                   /\ si' = 1
                   /\ pc' = "osub"
                   /\ UNCHANGED <<ui, yi, sai>>
    /\ UNCHANGED <<fs, disk, append, users, years, samples, subsamples, overwrite_sample,
                   use_new_structure, tsamples, tfiles, result, error, prior, written,
                   cvars, jvars>>

\* lines 277-319: one subsample of the OLD layout
OldSubsample ==
    /\ pc = "osub"
    /\ LET year == years[yi]
           sample == tsamples[sai]
           subsample == tsubsamples[si]
           subsample_name == CleanName(subsample)
           sspath == <<users.val[ui], year, sample, subsample>>
           w == OldWalk(sspath, is_data, year, sample, subsample_name, files, tfiles)
           nxt == IF si < Len(tsubsamples)
                  THEN [pc |-> "osub", ui |-> ui, yi |-> yi, sai |-> sai, si |-> si + 1]
                  ELSE [pc |-> AfterOldSample(sai).pc, ui |-> AfterOldSample(sai).ui,
                        yi |-> AfterOldSample(sai).yi, sai |-> AfterOldSample(sai).sai,
                        si |-> 0]
       IN  /\ files' = w.files
           /\ tfiles' = w.tfiles
           /\ calls' = calls \o w.calls
           /\ written' = written \cup
                 {[year |-> year, sample |-> sample, key |-> k,
                   kind |-> IF is_data THEN "old_data" ELSE "old_mc"] : k \in w.keys}
           /\ last' = [NoStep EXCEPT
                  !.act = "sub", !.data = is_data, !.year = year, !.sample = sample,
                  !.subsample = subsample, !.index = si, !.spath = sspath,
                  !.before = files, !.cbefore = calls,
                  !.tbefore = tfiles, !.keys = w.keys,
                  !.dup = ~is_data /\ Has(files[year][sample], subsample_name),
                  !.outcome = IF w.exc = "none" THEN "stored"
                              ELSE IF w.exc = "FileNotFoundError" THEN "skipped"
                              ELSE "error"]
           /\ IF w.exc = "UnboundLocalError"
              THEN /\ pc' = "error"
                   /\ error' = "UnboundLocalError"
                   /\ UNCHANGED <<ui, yi, sai, si>>
              ELSE /\ pc' = nxt.pc /\ ui' = nxt.ui /\ yi' = nxt.yi
                   /\ sai' = nxt.sai /\ si' = nxt.si
                   /\ UNCHANGED error
    /\ UNCHANGED <<fs, disk, append, users, years, samples, subsamples, overwrite_sample,
                   use_new_structure, is_data, tsamples, tsubsamples, result, prior,
                   reached, cvars, jvars>>

\* line 321: return files
Return ==
    /\ pc = "return"
    /\ result' = Some(files)
    /\ pc' = "save"
    /\ last' = [NoStep EXCEPT !.act = "return", !.before = files]
    /\ UNCHANGED <<fs, disk, append, users, years, samples, subsamples, overwrite_sample,
                   files, use_new_structure, ui, yi, is_data, tsamples, sai, tsubsamples,
                   si, tfiles, error, prior, written, reached, calls, cvars, jvars>>

\* main, lines 413-416: one JSON file per year of the returned catalog
MainSave ==
    /\ pc = "save"
    /\ disk' = [y \in (DOMAIN disk) \cup (DOMAIN result.val) |->
                  IF Has(result.val, y) THEN result.val[y] ELSE disk[y]]
    /\ pc' = "exit"
    /\ last' = [NoStep EXCEPT !.act = "save", !.before = files]
    /\ UNCHANGED <<fs, append, users, years, samples, subsamples, overwrite_sample, files,
                   use_new_structure, ui, yi, is_data, tsamples, sai, tsubsamples, si,
                   tfiles, result, error, prior, written, reached, calls, cvars, jvars>>

Next ==
    \/ MainLoad
    \/ Begin
    \/ NewYear
    \/ NewPass
    \/ NewSubsample
    \/ OldYear
    \/ OldSample
    \/ OldSubsample
    \/ Return
    \/ MainSave

(***************************************************************************)
(* The stores, catalogs and arguments the crawl is run on                  *)
(***************************************************************************)

\* the largest number of subsample directories in the store
MaxSubs == 2

Alice == <<"alice">>
Bob == <<"bob">>
Y22 == <<"2022">>
Y23 == <<"2023">>

\* MC subsample directories: HHto4B_v1, the same with a generator suffix, the
\* mislabelled VBF sample, and a name that no rule knows
S1 == <<"H", "Hto", "4B", "_v1">>
S1t == <<"H", "Hto", "4B", "_v1", "_TuneCP5", "_13p6TeV">>
S2 == <<"VBF", "H", "Hto", "4B", "_CV", "-", "m", "2p12", "_TuneCP5">>
Sx == <<"Foo">>
\* data subsample directories
D1 == <<"JetMET", "_Run2022C">>
D2 == <<"JetHT", "_Run2022C">>

HH4b == <<"HH4b">>
JetMET == <<"JetMET">>

\* dataset-version, timestamp and chunk directories
V1 == <<"Run2022C", "_DAZSLE_PFNano">>
V1b == <<"Run2022C">>
V2 == <<"Run2022C", "_v2", "_DAZSLE_PFNano">>
T1 == <<"240101_000000">>
T2 == <<"240202_000000">>
Chunk0 == <<"0000">>
Chunk1 == <<"0001">>

Fs1 == <<File(<<"a", ".root">>), File(<<"b", ".txt">>)>>
Fs2 == <<File(<<"c", ".root">>), File(<<"d", ".root", ".bak">>)>>

Full(v, fl) == Dir(v, <<Dir(T1, <<Dir(Chunk0, fl)>>)>>)

\* what a subsample directory may hold
ShOne == <<Full(V1, Fs1)>>
ShTwo == <<Full(V1, Fs1),
           Dir(V2, <<Dir(T1, <<Dir(Chunk0, Fs2), Dir(Chunk1, Fs1)>>), Dir(T2, <<Dir(Chunk0, Fs2)>>)>>)>>
ShSame == <<Full(V1, Fs1), Full(V1b, Fs2)>>
ShEmpty == <<>>
ShPartial == <<Full(V1, Fs1), Dir(V2, <<Dir(T1, <<Dir(Chunk0, Fs2), Bad(Chunk1)>>)>>)>>
ShNoTs == <<Dir(V1, <<>>)>>

McSubs ==
    {Dir(S1, sh) : sh \in {ShOne, ShTwo, ShEmpty, ShPartial, ShNoTs}}
    \cup {Bad(S1), Dir(S1t, ShOne), Dir(S2, ShOne), Dir(S2, ShTwo), Dir(S2, ShEmpty),
          Dir(Sx, ShOne)}

DataSubs ==
    {Dir(D1, sh) : sh \in {ShOne, ShSame, ShPartial, ShEmpty}}
    \cup {Bad(D1), Dir(D2, ShOne), Dir(Sx, ShOne)}

McSubs2 == {Dir(S1, ShOne), Dir(S1, ShEmpty), Bad(S1), Dir(S1t, ShOne)}
DataSubs2 == {Dir(D1, ShOne), Dir(D1, ShPartial)}

RECURSIVE Listings(_, _)
\* the listings of exactly n directories of S, with n different names
Listings(S, n) ==
    IF n = 0 THEN {<<>>}
    ELSE UNION {{Append(l, a) : a \in {x \in S : \A i \in 1..Len(l) : l[i].name # x.name}} :
                l \in Listings(S, n - 1)}

\* a directory with a listing of n directories of S; an empty one may also be absent
Part(name, S, n, absent) ==
    {<<Dir(name, l)>> : l \in Listings(S, n)}
    \cup (IF n = 0 /\ absent THEN {<<>>} ELSE {})

\* the NEW-layout directories of a user holding n subsample directories
NewUserDirs(user, D, M, n, absent) ==
    UNION {{Dir(user, d \o m) : d \in Part(DataDirName(Y22), D, a, absent),
                                m \in Part(McDirName(Y22), M, n - a, absent)} : a \in 0..n}

\* the OLD-layout directories of a user holding n subsample directories
OldUserDirs(user, D, M, n, absent) ==
    UNION {{Dir(user, <<Dir(Y22, d \o m)>>) : d \in Part(JetMET, D, a, absent),
                                              m \in Part(HH4b, M, n - a, absent)} : a \in 0..n}

\* a user's directory with n subsample directories; with none it may be missing
UserParts(user, D, M, n, absent) ==
    {<<u>> : u \in NewUserDirs(user, D, M, n, absent) \cup OldUserDirs(user, D, M, n, absent)}
    \cup (IF n = 0 THEN {<<>>} ELSE {})

\* the stores with one user, who holds up to MaxSubs subsample directories
OneUserStores ==
    UNION {{Dir(<<>>, a) : a \in UserParts(Alice, DataSubs, McSubs, n, TRUE)} :
           n \in 0..MaxSubs}

\* the stores with one user who holds at most one subsample directory
SmallStores ==
    UNION {{Dir(<<>>, a) : a \in UserParts(Alice, DataSubs, McSubs, n, TRUE)} : n \in 0..1}

\* the stores with two users, each holding at most one subsample directory
TwoUserStores ==
    {Dir(<<>>, a \o b) :
        a \in UNION {UserParts(Alice, DataSubs2, McSubs2, n, FALSE) : n \in 0..1},
        b \in UNION {UserParts(Bob, DataSubs2, McSubs2, n, FALSE) : n \in 0..1}}

OldUrl(n) == <<"root://old/", n>>

\* a catalog left by an earlier run: keys the crawl meets again and keys it does not
PriorDisk ==
    Put(Put(EmptyDict, <<"2021">>, Put(EmptyDict, HH4b, Put(EmptyDict, S1, <<OldUrl("0")>>))),
        Y22,
        Put(Put(Put(EmptyDict,
                    HH4b, Put(Put(EmptyDict, S1, <<OldUrl("1")>>),
                              <<"GluGlu", "H", "Hto", "4B">>, <<OldUrl("2")>>)),
                JetMET, Put(Put(EmptyDict, DataKey(JetMET, V1), <<OldUrl("3")>>),
                            V1, <<OldUrl("4")>>)),
            <<"QCD">>, Put(EmptyDict, <<"QCD", "-4Jets", "_HT">>, <<OldUrl("5")>>)))

Appending == [append |-> TRUE, disk |-> PriorDisk, overwrite_sample |-> FALSE]
Overwriting == [append |-> TRUE, disk |-> PriorDisk, overwrite_sample |-> TRUE]
Fresh == [append |-> FALSE, disk |-> PriorDisk, overwrite_sample |-> FALSE]

Flags == {Appending, Overwriting, Fresh}

\* no direct call of _get_sample_from_subsample has been made
NoCall == [made |-> FALSE]

InitWith(us, ys, store, fl, sm, ss) ==
    /\ fs = store
    /\ users = us
    /\ years = ys
    /\ samples = sm
    /\ subsamples = ss
    /\ append = fl.append
    /\ disk = fl.disk
    /\ overwrite_sample = fl.overwrite_sample
    /\ pc = "load"
    /\ files = EmptyDict
    /\ use_new_structure = FALSE
    /\ ui = 0 /\ yi = 0 /\ is_data = FALSE
    /\ tsamples = <<>> /\ sai = 0
    /\ tsubsamples = <<>> /\ si = 0
    /\ tfiles = Unbound
    /\ result = None
    /\ error = "none"
    /\ prior = EmptyDict
    /\ written = {}
    /\ reached = {}
    /\ last = NoStep
    /\ calls = <<>>
    /\ cin = NoCall /\ cout = NoCall /\ prev = NoCall
    /\ jets = NoCall /\ jout = NoCall

\* one user, every store, no filter
InitOneUser ==
    \E store \in OneUserStores, fl \in Flags :
        InitWith(Some(<<Alice>>), <<Y22>>, store, fl, None, None)

\* two users
InitTwoUsers ==
    \E store \in TwoUserStores, fl \in Flags :
        InitWith(Some(<<Alice, Bob>>), <<Y22>>, store, fl, None, None)

\* no users given: an empty list, or the listing of base_dir
InitNoUsers ==
    \/ \E fl \in Flags : InitWith(Some(<<>>), <<Y22>>, Dir(<<>>, <<>>), fl, None, None)
    \/ \E store \in SmallStores \cup {Bad(<<>>)} :
          InitWith(None, <<Y22>>, store, Appending, None, None)

\* two years requested, of which the store holds the second
InitTwoYears ==
    \E store \in SmallStores :
        InitWith(Some(<<Alice>>), <<Y23, Y22>>, store, Appending, None, None)

\* a sample filter or a subsample list given
InitFiltered ==
    \E store \in SmallStores, fl \in {Appending, Overwriting} :
      \E sm \in {None, Some(<<HH4b>>)}, ss \in {None, Some(<<S1>>)} :
        /\ sm.some \/ ss.some
        /\ InitWith(Some(<<Alice>>), <<Y22>>, store, fl, sm, ss)

Init ==
    \/ InitOneUser
    \/ InitTwoUsers
    \/ InitNoUsers
    \/ InitTwoYears
    \/ InitFiltered

Spec == Init /\ [][Next]_vars

(***************************************************************************)
(* _get_sample_from_subsample called directly, one call after another      *)
(***************************************************************************)

\* the substrings the rules look for
RulePatterns ==
    { <<"JetHT">>, <<"JetMET">>, <<"EGamma">>, <<"Muon">>, <<"Tau">>, <<"BTagMu">>,
      <<"Muon", "EG">>, <<"Parking", "VBF">>, <<"Parking", "Single", "Muon">>,
      <<"H", "Hto", "4B">>, <<"H", "Hto", "2B", "2", "Tau">>, <<"VBF">>, <<"2B", "2", "Tau">>,
      <<"Hto", "2B">>, <<"Hto", "2C">>, <<"Hto", "2", "Tau">>, <<"HTo", "2", "Tau">>,
      <<"QCD", "-4Jets", "_HT">>, <<"QCD", "_PT">>, <<"TTto">>,
      <<"TbarWplus">>, <<"TWminus">>, <<"TbarBQ">>, <<"TBbarQ">>,
      <<"DYto2L", "-4Jets">>, <<"DYto2L", "-2Jets">>,
      <<"Wto2Q", "-3Jets">>, <<"WtoLNu", "-4Jets">>, <<"Zto2Q", "-4Jets">>,
      <<"Wto2Q", "-2Jets">>, <<"WtoLNu", "-2Jets">>, <<"Zto2Q", "-2Jets">>,
      <<"WW", "_">>, <<"WZ", "_">>, <<"ZZ", "_">>, <<"WW", "to4Q">>, <<"WW", "toLNu2Q">>,
      <<"WZ", "to3LNu">>, <<"WZ", "to4Q">>, <<"ZZ", "to2L2Q">>, <<"ZZ", "to4L">>,
      <<"VBF", "Zto2Q">>, <<"VBF", "Wto2Q">>, <<"VBF", "to2L">>, <<"VBF", "to2Nu">>,
      <<"VBF", "toLNu">>,
      <<"WGtoLNuG">>, <<"WGto2QG">>, <<"ZGto2NuG">>, <<"ZGto2QG">> }

\* names in which two substrings of different rules occur
MixedNames ==
    { <<"Muon", "EG", "_Run2022C">>, <<"Parking", "Single", "Muon", "_Run2022D">>,
      <<"Parking", "VBF", "_Run2023C">>, <<"BTagMu", "_Run2022C">>,
      <<"Muon", "_Run2022C">>, <<"Tau", "_", "Muon">>, <<"EGamma", "_", "Muon", "EG">>,
      <<"JetMET", "_", "Muon", "EG">>, <<"Muon", "EG", "_", "Tau">>,
      <<"VBF", "H", "Hto", "4B", "_CV", "-", "m", "2p12">>,
      <<"VBF", "H", "Hto", "2B", "2", "Tau", "_CV_1">>,
      <<"GluGlu", "toH", "Hto", "2B", "2", "Tau">>, <<"GluGlu", "H", "Hto", "4B", "_", "2B", "2", "Tau">>,
      <<"VBF", "Hto", "2B">>, <<"ttH", "Hto", "2B">>, <<"ggZ", "Hto", "2C">>,
      <<"QCD", "-4Jets", "_HT", "_", "QCD", "_PT">>, <<"QCD", "_PT", "_", "TTto">>,
      <<"TTto", "_", "Hto", "2B">>, <<"VBF", "Zto2Q", "-4Jets">>, <<"VBF", "Wto2Q", "-2Jets">>,
      <<"WZ", "to4Q", "_", "Zto2Q", "-2Jets">>, <<"WGtoLNuG", "_", "WW", "_">>,
      <<"DYto2L", "-2Jets", "_", "DYto2L", "-4Jets">> }

\* names in which no substring of any rule occurs
UnknownNames == {<<>>, <<"Foo">>, <<"Jet", "HT">>, <<"H", "to", "4B">>, <<"muon">>}

\* the names the function is called with
ClassifyNames ==
    RulePatterns \cup {p \o <<"_v1">> : p \in RulePatterns} \cup MixedNames \cup UnknownNames

\* the names a later call is made with
RepeatNames ==
    { <<"Muon", "EG", "_Run2022C">>, <<"Parking", "Single", "Muon", "_Run2022D">>,
      <<"JetMET", "_", "Muon", "EG">>, <<"Tau", "_", "Muon">>,
      <<"VBF", "H", "Hto", "4B", "_CV", "-", "m", "2p12">>,
      <<"VBF", "H", "Hto", "2B", "2", "Tau", "_CV_1">>,
      <<"GluGlu", "H", "Hto", "4B", "_", "2B", "2", "Tau">>,
      <<"QCD", "_PT", "_", "TTto">>, <<"Foo">>, <<>> }

\* nothing is crawled: only the classification function is called
ClassifyInit ==
    /\ fs = Dir(<<>>, <<>>) /\ disk = EmptyDict /\ append = FALSE
    /\ users = None /\ years = <<>> /\ samples = None /\ subsamples = None
    /\ overwrite_sample = FALSE
    /\ pc = "classify"
    /\ files = EmptyDict /\ use_new_structure = FALSE
    /\ ui = 0 /\ yi = 0 /\ is_data = FALSE
    /\ tsamples = <<>> /\ sai = 0 /\ tsubsamples = <<>> /\ si = 0
    /\ tfiles = Unbound /\ result = None /\ error = "none"
    /\ prior = EmptyDict /\ written = {} /\ reached = {} /\ last = NoStep
    /\ calls = <<>>
    /\ cin = NoCall /\ cout = NoCall /\ prev = NoCall
    /\ jets = NoCall /\ jout = NoCall

\* one call of _get_sample_from_subsample
Classify ==
    /\ pc = "classify"
    /\ \E n \in (IF cin.made THEN RepeatNames ELSE ClassifyNames), d \in BOOLEAN :
          /\ cin' = [made |-> TRUE, name |-> n, is_data |-> d]
          /\ cout' = [made |-> TRUE, out |-> GetSampleFromSubsample(n, d)]
    /\ prev' = IF cin.made
               THEN [made |-> TRUE, name |-> cin.name, is_data |-> cin.is_data,
                     out |-> cout.out]
               ELSE NoCall
    /\ UNCHANGED <<fs, disk, append, users, years, samples, subsamples, overwrite_sample,
                   pc, files, use_new_structure, ui, yi, is_data, tsamples, sai,
                   tsubsamples, si, tfiles, result, error, prior, written, reached, last,
                   calls, jvars>>

ClassifyNext == Classify

ClassifySpec == ClassifyInit /\ [][ClassifyNext]_vars

(***************************************************************************)
(* The calls of jetid_v12 and jetid_v14: one jet, drawn from the values    *)
(* on either side of every threshold the functions compare with            *)
(***************************************************************************)

Etas == {Num(v) : v \in {0, 2600, 2650, 2700, 2750, 3000, 3050, 0 - 2750}} \cup {NaN}
JetIds == {0, 2, 5, 6}
NeHEFs == {Num(v) : v \in {500, 900, 950, 990}} \cup {NaN}
NeEmEFs == {Num(v) : v \in {100, 400, 900, 990}}
ChHEFs == {Num(v) : v \in {10, 500}}
MuEFs == {Num(v) : v \in {500, 800}}
ChEmEFs == {Num(v) : v \in {500, 800}}
Multiplicities == {0, 1, 2}

Jets ==
    [eta : Etas, jetId : JetIds, neHEF : NeHEFs, neEmEF : NeEmEFs, chHEF : ChHEFs,
     muEF : MuEFs, chEmEF : ChEmEFs,
     chMultiplicity : Multiplicities, neMultiplicity : Multiplicities]

JetInit ==
    /\ fs = Dir(<<>>, <<>>) /\ disk = EmptyDict /\ append = FALSE
    /\ users = None /\ years = <<>> /\ samples = None /\ subsamples = None
    /\ overwrite_sample = FALSE
    /\ pc = "jetid"
    /\ files = EmptyDict /\ use_new_structure = FALSE
    /\ ui = 0 /\ yi = 0 /\ is_data = FALSE
    /\ tsamples = <<>> /\ sai = 0 /\ tsubsamples = <<>> /\ si = 0
    /\ tfiles = Unbound /\ result = None /\ error = "none"
    /\ prior = EmptyDict /\ written = {} /\ reached = {} /\ last = NoStep
    /\ calls = <<>>
    /\ cin = NoCall /\ cout = NoCall /\ prev = NoCall
    /\ jets = NoCall /\ jout = NoCall

\* what a call leaves alone
JetFrame ==
    UNCHANGED <<fs, disk, append, users, years, samples, subsamples, overwrite_sample,
                pc, files, use_new_structure, ui, yi, is_data, tsamples, sai,
                tsubsamples, si, tfiles, result, error, prior, written, reached, last,
                calls, cvars>>

\* a call of jetid_v12 on one jet
CallJetidV12 ==
    /\ pc = "jetid" /\ ~jets.made
    /\ \E j \in Jets :
          /\ jets' = [made |-> TRUE, jet |-> j]
          /\ jout' = [made |-> TRUE, version |-> "v12", flags |-> JetidV12(j)]
    /\ JetFrame

\* a call of jetid_v14 on one jet
CallJetidV14 ==
    /\ pc = "jetid" /\ ~jets.made
    /\ \E j \in Jets :
          /\ jets' = [made |-> TRUE, jet |-> j]
          /\ jout' = [made |-> TRUE, version |-> "v14", flags |-> JetidV14(j)]
    /\ JetFrame

JetNext == CallJetidV12 \/ CallJetidV14

JetSpec == JetInit /\ [][JetNext]_vars

(***************************************************************************)
(* What the store holds, read off the tree                                 *)
(***************************************************************************)

Range(q) == {q[i] : i \in 1..Len(q)}

RECURSIVE ListableBelow(_, _)
\* every directory from path down to d levels below it can be listed
ListableBelow(path, d) ==
    /\ Dirlist(path).ok
    /\ d > 0 => \A i \in 1..Len(Dirlist(path).names) :
                   ListableBelow(Append(path, Dirlist(path).names[i]), d - 1)

IsRootFile(f) == Len(f) > 0 /\ f[Len(f)] = ".root"

\* the URL of file f of the directory at path
UrlOf(path, f) == Redirector \o PathStr(path) \o <<"/">> \o f

RECURSIVE FilesIn(_, _)
\* the URLs of the .root entries of a chunk directory, in listing order
FilesIn(path, names) ==
    IF names = <<>> THEN <<>>
    ELSE (IF IsRootFile(names[1]) THEN <<UrlOf(path, names[1])>> ELSE <<>>)
         \o FilesIn(path, Tail(names))

RECURSIVE UrlsBelow(_, _)
RECURSIVE UrlsOfKids(_, _, _)
\* the URLs of the .root files of the chunk directories d levels below path, in order
UrlsBelow(path, d) ==
    IF d = 0 THEN FilesIn(path, Dirlist(path).names)
    ELSE UrlsOfKids(path, Dirlist(path).names, d - 1)
UrlsOfKids(path, names, d) ==
    IF names = <<>> THEN <<>>
    ELSE UrlsBelow(Append(path, names[1]), d) \o UrlsOfKids(path, Tail(names), d)

\* the URLs stored anywhere in the SampleEntry of (year, sample)
UrlsOfEntry(f, year, sample) ==
    IF Has(f, year) /\ Has(f[year], sample)
    THEN UNION {Range(f[year][sample][k]) : k \in DOMAIN f[year][sample]}
    ELSE {}

\* the program has ended: main returned, or an exception left it
Ended == pc \in {"exit", "error"}

(***************************************************************************)
(* Claims                                                                  *)
(***************************************************************************)

\* C1: with at least one user, a not-found failure of a listing at or below a
\* user's directory (year, sample, subsample, dataset-version, timestamp or chunk
\* directory) never aborts the run: FileNotFoundError leaves the program only
\* from the listing of base_dir itself.
C1_ListingFailureNeverAborts ==
    (pc = "error" /\ error = "FileNotFoundError") => last.act = "begin"

\* the store of the end-to-end scenario: alice/mc_2022/HHto4B_v1/<version>/
\* <timestamp>/0000/{a.root, b.txt}, and no data_2022
C2_Store == Dir(<<>>, <<Dir(Alice, <<Dir(McDirName(Y22), <<Dir(S1, ShOne)>>)>>)>>)

C2_Scenario ==
    /\ fs = C2_Store
    /\ users = Some(<<Alice>>)
    /\ years = <<Y22>>
    /\ ~samples.some /\ ~subsamples.some
    /\ ~append

\* C2: in the end-to-end scenario (one user, mc_2022 only, one subsample with one
\* dataset-version, timestamp and chunk directory, empty starting catalog) the crawl
\* returns a catalog whose entry [2022][HH4b][HHto4B_v1] is exactly the URL of a.root.
C2_EndToEnd ==
    (C2_Scenario /\ Ended) =>
        /\ result.some
        /\ Has(result.val, Y22) /\ Has(result.val[Y22], HH4b)
        /\ Has(result.val[Y22][HH4b], S1)
        /\ result.val[Y22][HH4b][S1] =
              <<UrlOf(<<Alice, McDirName(Y22), S1, V1, T1, Chunk0>>, <<"a", ".root">>)>>

\* the last step processed a subsample after an earlier subsample of the same
\* parent directory had a listing at or below its path fail
AfterFailedSibling ==
    /\ last.act = "sub"
    /\ \E j \in 1..(last.index - 1) :
          ~ListableBelow(Append(SubSeq(last.spath, 1, Len(last.spath) - 1),
                                tsubsamples[j]), 3)

\* C3: after a listing below one subsample failed, a later subsample of the same
\* parent directory is still processed, and when all its listings succeed its files
\* are recorded in the catalog (both layouts).
C3_LaterSubsamplesRecorded ==
    /\ (last.act = "sub" /\ last.outcome = "skipped") => pc # "error"
    /\ ( /\ AfterFailedSibling /\ ListableBelow(last.spath, 3)
         /\ last.outcome # "filtered" /\ error # "ValueError" ) =>
          /\ last.outcome = "stored"
          /\ Range(UrlsBelow(last.spath, 3)) \subseteq UrlsOfEntry(files, last.year, last.sample)

\* C4: NEW layout, MC: the list stored for a subsample with several dataset-version
\* directories, all listable, holds the .root URLs found under every one of them.
C4_AllDatasetVersionsKept ==
    ( /\ last.act = "sub" /\ use_new_structure /\ ~last.data
      /\ last.outcome = "stored"
      /\ Len(Dirlist(last.spath).names) >= 2
      /\ ListableBelow(last.spath, 3) ) =>
        \A k \in last.keys :
            Range(UrlsBelow(last.spath, 3)) \subseteq Range(files[last.year][last.sample][k])

\* C5: with overwrite_sample, for every (year, sample) that the prior catalog holds
\* and the crawl reaches, the returned SampleEntry has no key carried over from
\* before the crawl and has the key of every subsample stored in this run.
C5_OverwriteRebuildsFromRun ==
    (result.some /\ overwrite_sample) =>
        \A ys \in reached :
            (Has(prior, ys[1]) /\ Has(prior[ys[1]], ys[2])) =>
                LET stored == {w.key : w \in {x \in written :
                                                x.year = ys[1] /\ x.sample = ys[2]}}
                IN  DOMAIN result.val[ys[1]][ys[2]] = stored

\* every URL a catalog holds
UrlsOfCatalog(f) ==
    UNION {UrlsOfEntry(f, y, s) : y \in DOMAIN f, s \in UNION {DOMAIN f[z] : z \in DOMAIN f}}

RECURSIVE PathsBelow(_, _)
\* the paths of the entries d levels below path
PathsBelow(path, d) ==
    IF d = 0 THEN {path}
    ELSE UNION {PathsBelow(Append(path, Dirlist(path).names[i]), d - 1) :
                i \in 1..Len(Dirlist(path).names)}

\* the chunk directories: six levels below base_dir in the NEW layout
\* (user, year directory, subsample, dataset version, timestamp, chunk), seven in the OLD
ChunkDirs == PathsBelow(<<>>, IF use_new_structure THEN 6 ELSE 7)

\* redirector + chunk-directory path + "/" + filename, for the listed names ending in .root
WellFormedUrls ==
    UNION {{UrlOf(p, Dirlist(p).names[i]) :
                i \in {j \in 1..Len(Dirlist(p).names) : IsRootFile(Dirlist(p).names[j])}} :
           p \in ChunkDirs}

\* the prior catalog holds the key that w names
PriorHas(w) ==
    Has(prior, w.year) /\ Has(prior[w.year], w.sample) /\ Has(prior[w.year][w.sample], w.key)

IsPrefix(p, q) == Len(p) <= Len(q) /\ SubSeq(q, 1, Len(p)) = p

\* C6: as claimed: appending without overwrite_sample, every key of the prior
\* catalog that the crawl writes again (data or MC) still holds every URL of its
\* prior list when the crawl returns.
C6_RewrittenKeysKeepPriorUrls ==
    (result.some /\ append /\ ~overwrite_sample) =>
        \A w \in written :
            PriorHas(w) =>
                Range(prior[w.year][w.sample][w.key])
                    \subseteq Range(result.val[w.year][w.sample][w.key])

\* C6: as amended: appending without overwrite_sample, a NEW-layout data key of the
\* prior catalog that the crawl writes again keeps its prior list, the new files
\* following it; an MC key or an OLD-layout data key that is written again holds
\* files found by this crawl only: its prior list is replaced.
C6_DataKeysMergedOthersReplaced ==
    (append /\ ~overwrite_sample) =>
        \A w \in written :
            PriorHas(w) =>
                IF w.kind = "new_data"
                THEN IsPrefix(prior[w.year][w.sample][w.key], files[w.year][w.sample][w.key])
                ELSE Range(files[w.year][w.sample][w.key]) \subseteq WellFormedUrls

C6_Witness ==
    /\ pc = "exit" /\ append /\ ~overwrite_sample
    /\ \E w \in written :
          /\ w.kind = "new_data" /\ PriorHas(w)
          /\ Len(files[w.year][w.sample][w.key]) > Len(prior[w.year][w.sample][w.key])
    /\ \E w \in written : w.kind = "new_mc" /\ PriorHas(w)

\* C7: appending without overwrite_sample, whatever the users (an empty list too),
\* the years and the store, every key of the prior catalog that the crawl does not
\* write is in the returned catalog with the list it had.
C7_UnwrittenKeysReturned ==
    (result.some /\ append /\ ~overwrite_sample) =>
        \A y \in DOMAIN prior : \A s \in DOMAIN prior[y] : \A k \in DOMAIN prior[y][s] :
            (~\E w \in written : w.year = y /\ w.sample = s /\ w.key = k) =>
                /\ Has(result.val, y) /\ Has(result.val[y], s) /\ Has(result.val[y][s], k)
                /\ result.val[y][s][k] = prior[y][s][k]

\* C8: every URL the crawl adds to the catalog is redirector + chunk-directory path
\* + "/" + filename, for a filename that the listing of that chunk directory
\* returned and that ends in ".root".
C8_UrlsWellFormed ==
    UrlsOfCatalog(files) \subseteq (UrlsOfCatalog(prior) \cup WellFormedUrls)

C8_Witness ==
    /\ pc = "exit"
    /\ \E u \in UrlsOfCatalog(files) : u \in WellFormedUrls
    /\ \E p \in ChunkDirs : \E i \in 1..Len(Dirlist(p).names) :
          /\ ~IsRootFile(Dirlist(p).names[i])
          /\ \E j \in 1..Len(Dirlist(p).names[i]) : Dirlist(p).names[i][j] = ".root"

\* the last step processed a data subsample of the NEW layout
NewDataStep ==
    /\ last.act = "sub" /\ use_new_structure /\ last.data
    /\ last.outcome \in {"stored", "skipped"}

RECURSIVE GoodPrefix(_, _)
\* the dataset-version directories up to the first one with a failing listing
GoodPrefix(spath, f1s) ==
    IF f1s = <<>> \/ ~ListableBelow(Append(spath, f1s[1]), 2) THEN <<>>
    ELSE <<f1s[1]>> \o GoodPrefix(spath, Tail(f1s))

IsNotSuffixToken(t) == t # "_DAZSLE_PFNano"

\* sample + "_" + (d with "_DAZSLE_PFNano" removed)
RunKey(sample, d) == sample \o <<"_">> \o SelectSeq(d, IsNotSuffixToken)

RECURSIVE UrlsForKey(_, _, _, _)
\* the files of the directories of f1s that map to key k, in crawl order
UrlsForKey(spath, f1s, sample, k) ==
    IF f1s = <<>> THEN <<>>
    ELSE (IF RunKey(sample, f1s[1]) = k THEN UrlsBelow(Append(spath, f1s[1]), 2) ELSE <<>>)
         \o UrlsForKey(spath, Tail(f1s), sample, k)

\* the list a key had before the last step; when reset is TRUE, the list left once
\* overwrite_sample has emptied an existing SampleEntry
ListBefore(k, reset) ==
    IF /\ Has(last.before[last.year], last.sample)
       /\ ~(reset /\ overwrite_sample)
       /\ Has(last.before[last.year][last.sample], k)
    THEN last.before[last.year][last.sample][k]
    ELSE <<>>

DataKeysExtend(reset) ==
    LET good == GoodPrefix(last.spath, Dirlist(last.spath).names)
        entry == files[last.year][last.sample]
    IN  /\ \A i \in 1..Len(good) : Has(entry, RunKey(last.sample, good[i]))
        /\ \A k \in DOMAIN entry :
              entry[k] = ListBefore(k, reset) \o UrlsForKey(last.spath, good, last.sample, k)

\* C9: as claimed: NEW layout, data: the files of dataset-version directory d go
\* under sample + "_" + (d without "_DAZSLE_PFNano"), and a key's list is the list
\* it had before followed by the files of the directories that map to it, in crawl
\* order: nothing is overwritten.
C9_DataListsNeverOverwritten == NewDataStep => DataKeysExtend(FALSE)

\* C9: as amended: the same, the list a key had before being the empty list when
\* overwrite_sample emptied the existing SampleEntry on entering the subsample.
C9_DataListsExtended == NewDataStep => DataKeysExtend(TRUE)

C9_Witness ==
    /\ NewDataStep /\ last.outcome = "stored"
    /\ \E k \in DOMAIN files[last.year][last.sample] :
          /\ ListBefore(k, TRUE) # <<>>
          /\ \E i, j \in 1..Len(Dirlist(last.spath).names) :
                /\ i # j
                /\ RunKey(last.sample, Dirlist(last.spath).names[i]) = k
                /\ RunKey(last.sample, Dirlist(last.spath).names[j]) = k

\* the layout has been detected
Detected == pc \notin {"load", "begin"} /\ users.some /\ Len(users.val) > 0

\* the names in the top-level directory of the first user
TopNames == Range(Names(Lookup(fs, <<users.val[1]>>).kids))

Markers == {DataDirName(years[i]) : i \in 1..Len(years)}
           \cup {McDirName(years[i]) : i \in 1..Len(years)}

Rule(pats, label) == [pats |-> pats, also |-> <<>>, label |-> label]

\* the rules for data, in the order of the source
DataTable ==
    << Rule({<<"JetHT">>, <<"JetMET">>}, "JetMET"),
       Rule({<<"EGamma">>}, "EGamma"),
       Rule({<<"Muon">>}, "Muon"),
       Rule({<<"Tau">>}, "Tau"),
       Rule({<<"BTagMu">>}, "BTagMu"),
       Rule({<<"Muon", "EG">>}, "MuonEG"),
       Rule({<<"Parking", "VBF">>}, "ParkingVBF"),
       Rule({<<"Parking", "Single", "Muon">>}, "ParkingSingleMuon") >>

HHPats == {<<"H", "Hto", "4B">>, <<"H", "Hto", "2B", "2", "Tau">>}

\* the rules for MC, in the order of the source; a Higgs-pair name is HHbbtt when
\* "2B2Tau" also occurs in it and HH4b otherwise
McTable ==
    << [pats |-> HHPats, also |-> <<"2B", "2", "Tau">>, label |-> "HHbbtt"],
       Rule(HHPats, "HH4b"),
       Rule({<<"Hto", "2B">>}, "Hbb"),
       Rule({<<"Hto", "2C">>}, "Hcc"),
       Rule({<<"Hto", "2", "Tau">>, <<"HTo", "2", "Tau">>}, "Htautau"),
       Rule({<<"QCD", "-4Jets", "_HT">>}, "QCD"),
       Rule({<<"QCD", "_PT">>}, "QCD_PT"),
       Rule({<<"TTto">>}, "TT"),
       Rule({<<"TbarWplus">>, <<"TWminus">>, <<"TbarBQ">>, <<"TBbarQ">>}, "SingleTop"),
       Rule({<<"DYto2L", "-4Jets">>}, "DYJetsLO"),
       Rule({<<"DYto2L", "-2Jets">>}, "DYJetsNLO"),
       Rule({<<"Wto2Q", "-3Jets">>, <<"WtoLNu", "-4Jets">>, <<"Zto2Q", "-4Jets">>}, "VJetsLO"),
       Rule({<<"Wto2Q", "-2Jets">>, <<"WtoLNu", "-2Jets">>, <<"Zto2Q", "-2Jets">>}, "VJetsNLO"),
       Rule({<<"WW", "_">>, <<"WZ", "_">>, <<"ZZ", "_">>, <<"WW", "to4Q">>,
             <<"WW", "toLNu2Q">>, <<"WZ", "to3LNu">>, <<"WZ", "to4Q">>,
             <<"ZZ", "to2L2Q">>, <<"ZZ", "to4L">>}, "Diboson"),
       Rule({<<"VBF", "Zto2Q">>, <<"VBF", "Wto2Q">>, <<"VBF", "to2L">>,
             <<"VBF", "to2Nu">>, <<"VBF", "toLNu">>}, "EWKV"),
       Rule({<<"WGtoLNuG">>, <<"WGto2QG">>, <<"ZGto2NuG">>, <<"ZGto2QG">>}, "VGamma") >>

TableOf(data) == IF data THEN DataTable ELSE McTable

\* one of the rule's substrings occurs in the name (and the one it also asks for)
RuleMatches(rule, n) ==
    /\ \E p \in rule.pats : \E i \in 1..Len(n) : MatchAt(n, p, i)
    /\ rule.also # <<>> => \E i \in 1..Len(n) : MatchAt(n, rule.also, i)

\* no rule of the group matches the name
NoRuleMatches(n, data) ==
    \A i \in 1..Len(TableOf(data)) : ~RuleMatches(TableOf(data)[i], n)

MatchingLabels(n, data) ==
    {TableOf(data)[i].label : i \in {j \in 1..Len(TableOf(data)) :
                                        RuleMatches(TableOf(data)[j], n)}}

\* C12: a data name in which the substrings of the Muon rule and of the MuonEG rule
\* occur (and of no other rule) is classified MuonEG, and one in which those of the
\* Muon rule and of the ParkingSingleMuon rule occur is classified
\* ParkingSingleMuon: the more specific rule wins.
C12_SpecificRuleWins ==
    (cin.made /\ cin.is_data) =>
        /\ MatchingLabels(cin.name, TRUE) = {"Muon", "MuonEG"}
              => cout.out = Label("MuonEG")
        /\ MatchingLabels(cin.name, TRUE) = {"Muon", "ParkingSingleMuon"}
              => cout.out = Label("ParkingSingleMuon")

\* the label of the first rule of the table that matches, or the error
FirstMatch(n, data) ==
    IF NoRuleMatches(n, data) THEN [ok |-> FALSE, msg |-> n]
    ELSE LET first == CHOOSE i \in 1..Len(TableOf(data)) :
                         /\ RuleMatches(TableOf(data)[i], n)
                         /\ \A j \in 1..(i - 1) : ~RuleMatches(TableOf(data)[j], n)
         IN  [ok |-> TRUE, sample |-> <<TableOf(data)[first].label>>]

\* C13: a call returns the label of the first rule, in the table order of the
\* is_data group, of which a substring occurs in the name; it fails, with an error
\* that names the input, exactly when no rule of the group matches; and a call with
\* the input of the call before it has the outcome of the call before it.
C13_ClassifyIsPure ==
    cin.made =>
        /\ cout.out = FirstMatch(cin.name, cin.is_data)
        /\ ~cout.out.ok <=> NoRuleMatches(cin.name, cin.is_data)
        /\ ~cout.out.ok => cout.out.msg = cin.name
        /\ (prev.made /\ prev.name = cin.name /\ prev.is_data = cin.is_data)
              => prev.out = cout.out

C13_Witness ==
    /\ cin.made /\ prev.made
    /\ prev.name = cin.name /\ prev.is_data = cin.is_data
    /\ Cardinality(MatchingLabels(cin.name, cin.is_data)) >= 2
    /\ ~NoRuleMatches(cin.name, ~cin.is_data)
    /\ MatchingLabels(cin.name, ~cin.is_data) # MatchingLabels(cin.name, cin.is_data)

\* the last step processed an MC subsample whose canonical key was already in the
\* SampleEntry, and every listing at or below the subsample's path succeeds
DuplicateProcessed ==
    /\ last.act = "sub" /\ ~last.data /\ last.dup
    /\ ListableBelow(last.spath, 3)

\* C14: when the canonical key of an MC subsample is already in the (year, sample)
\* entry, the crawl does not fail: it goes on, and once the subsample is processed
\* the key holds the list crawled for this subsample (URLs found below its
\* directory), not the earlier one.
C14_DuplicateKeyOverwritten ==
    DuplicateProcessed =>
        /\ pc # "error"
        /\ last.outcome = "stored"
        /\ \A k \in last.keys :
              Range(files[last.year][last.sample][k]) \subseteq Range(UrlsBelow(last.spath, 3))

\* the positions in calls of the listings of path
CallsTo(path) == {i \in 1..Len(calls) : calls[i] = path}

\* the year-level directories of the mode
YearDirs(new) ==
    IF new THEN Markers ELSE Range(years)

\* C15: the mode comes from exactly one listing of the first user's top-level
\* directory, which comes before every listing at or below a year directory; no
\* other user's top-level directory is listed, and every year directory crawled,
\* of whichever user, is one of the detected mode (data_{year} and mc_{year} under
\* NEW, {year} under OLD): the mode is the same for all users and through the run.
C15_LayoutDetectedOnce ==
    Detected =>
        /\ Cardinality(CallsTo(<<users.val[1]>>)) = 1
        /\ \A i \in 1..Len(calls) :
              /\ Len(calls[i]) = 1 => calls[i] = <<users.val[1]>>
              /\ Len(calls[i]) >= 2 =>
                    /\ \E j \in 1..(i - 1) : calls[j] = <<users.val[1]>>
                    /\ calls[i][1] \in Range(users.val)
                    /\ calls[i][2] \in YearDirs(use_new_structure)

C15_Witness ==
    /\ Detected /\ Len(users.val) = 2
    /\ \E i \in 1..Len(calls) : Len(calls[i]) >= 2 /\ calls[i][1] = users.val[2]
    /\ Lookup(fs, <<users.val[2]>>).ok
    /\ Range(Names(Lookup(fs, <<users.val[2]>>).kids)) \cap YearDirs(~use_new_structure) # {}
    /\ Range(Names(Lookup(fs, <<users.val[2]>>).kids)) \cap YearDirs(use_new_structure) = {}

\* the last step skipped a subsample: a listing at or below its path failed
Skipped == last.act = "sub" /\ last.outcome = "skipped"

\* C16: as claimed: after a subsample is skipped the catalog is identical to the
\* catalog right before the subsample was processed.
C16_SkipLeavesCatalogIdentical == Skipped => files = last.before

\* the SampleEntry of the skipped subsample once it is prepared: in the NEW layout
\* it is created when absent and emptied when overwrite_sample is set
PreparedEntry ==
    IF use_new_structure
       /\ (~Has(last.before[last.year], last.sample) \/ overwrite_sample)
    THEN EmptyDict
    ELSE last.before[last.year][last.sample]

\* the keys of the dataset-version directories crawled before the failing one
KeysBeforeFailure ==
    LET good == GoodPrefix(last.spath, Dirlist(last.spath).names)
    IN  {IF use_new_structure THEN RunKey(last.sample, good[i]) ELSE good[i] :
            i \in 1..Len(good)}

\* C16: as amended: after a subsample is skipped the crawl goes on and the catalog
\* is the catalog right before the subsample was processed, except for the
\* subsample's SampleEntry: in the NEW layout the entry has been created if absent
\* and emptied if overwrite_sample is set; for MC nothing else has changed, for data
\* only the keys of the dataset-version directories that were crawled completely
\* before the failing one have changed.  No list is stored for the failing branch.
C16_SkipKeepsOtherEntries ==
    Skipped =>
        /\ pc # "error"
        /\ DOMAIN files = DOMAIN last.before
        /\ \A y \in DOMAIN files :
              /\ DOMAIN files[y] =
                    DOMAIN last.before[y] \cup (IF y = last.year THEN {last.sample} ELSE {})
              /\ \A s \in DOMAIN files[y] :
                    (y # last.year \/ s # last.sample) => files[y][s] = last.before[y][s]
        /\ ~last.data => files[last.year][last.sample] = PreparedEntry
        /\ last.data =>
              /\ DOMAIN files[last.year][last.sample]
                    = DOMAIN PreparedEntry \cup KeysBeforeFailure
              /\ \A k \in DOMAIN PreparedEntry \ KeysBeforeFailure :
                    files[last.year][last.sample][k] = PreparedEntry[k]

C16_Witness ==
    /\ Skipped /\ last.data
    /\ KeysBeforeFailure # {}
    /\ DOMAIN PreparedEntry \ KeysBeforeFailure # {}
    /\ files # last.before

\* the last step stored a subsample of the OLD layout, every listing at or below
\* its path succeeding
OldStored ==
    /\ last.act = "sub" /\ ~use_new_structure
    /\ last.outcome = "stored"
    /\ ListableBelow(last.spath, 3)

\* C17: OLD layout, every listing succeeding: the list of a data sub-entry f1 holds
\* the .root URLs of every chunk directory of every timestamp directory beneath f1;
\* the list under an MC canonical key holds those of every chunk directory of every
\* timestamp directory of every dataset-version directory beneath the subsample;
\* and the subsample is treated as data exactly when its sample is a data sample.
C17_OldListsAccumulate ==
    OldStored =>
        LET entry == files[last.year][last.sample]
            f1s == Dirlist(last.spath).names
        IN  /\ last.data <=> last.sample \in DATA_SAMPLES
            /\ last.data =>
                  \A i \in 1..Len(f1s) :
                      /\ Has(entry, f1s[i])
                      /\ Range(UrlsBelow(Append(last.spath, f1s[i]), 2))
                            \subseteq Range(entry[f1s[i]])
            /\ ~last.data =>
                  \A k \in last.keys : Range(UrlsBelow(last.spath, 3)) \subseteq Range(entry[k])

\* C18: a list the crawl stores under an MC subsample key holds only URLs found
\* beneath the subsample directory being processed, and one it stores under a data
\* key only URLs found beneath the dataset-version directory being processed; a
\* directory with nothing at the next level is stored with an empty list, and does
\* not make the crawl fail.
C18_NoStaleLists ==
    (last.act = "sub" /\ ListableBelow(last.spath, 3)
        /\ last.outcome \in {"stored", "error"} /\ error # "ValueError") =>
        LET entry == files[last.year][last.sample]
            f1s == Dirlist(last.spath).names
        IN  /\ error = "none"
            /\ last.outcome = "stored"
            /\ ~last.data =>
                  \A k \in last.keys : Range(entry[k]) \subseteq Range(UrlsBelow(last.spath, 3))
            /\ (last.data /\ ~use_new_structure) =>
                  \A i \in 1..Len(f1s) :
                      /\ Has(entry, f1s[i])
                      /\ Range(entry[f1s[i]])
                            \subseteq Range(UrlsBelow(Append(last.spath, f1s[i]), 2))
            /\ (last.data /\ use_new_structure) => DataKeysExtend(TRUE)

\* the supplied subsamples whose directory exists under the data_{year} or the
\* mc_{year} directory of a user
SuppliedDirs ==
    {<<u, y, d, k>> \in (1..Len(users.val)) \X (1..Len(years)) \X BOOLEAN
                          \X (1..Len(subsamples.val)) :
        Lookup(fs, Append(NewYPath(users.val[u], years[y], d), subsamples.val[k])).ok}

\* C19: in the NEW layout with a subsample list supplied by the caller: no year
\* directory is listed to discover subsamples; a supplied name that matches a rule
\* of the other group (an MC name in the data pass, a data name in the MC pass)
\* does not end the crawl; and when the crawl returns, every supplied subsample
\* whose directory exists under data_{year} or mc_{year} has an entry of its sample
\* in the catalog of that year.
C19_SuppliedSubsamplesRecorded ==
    (Detected /\ use_new_structure /\ subsamples.some) =>
        /\ \A i \in 1..Len(calls) : Len(calls[i]) # 2
        /\ (last.act = "sub" /\ ~NoRuleMatches(last.subsample, ~last.data))
              => error # "ValueError"
        /\ result.some =>
              \A t \in SuppliedDirs :
                 LET c == GetSampleFromSubsample(subsamples.val[t[4]], t[3])
                 IN  c.ok /\ Has(result.val[years[t[2]]], c.sample)

\* C20: in the NEW layout with a sample filter configured, a subsample whose
\* classified sample is not in the filter is passed over: while it is processed no
\* listing call is issued, the catalog stays as it was (no SampleEntry created,
\* reset or modified, also when overwrite_sample is set and a SampleEntry of that
\* sample exists), the list being collected is not touched, and the crawl goes on.
C20_FilteredSubsampleUntouched ==
    ( /\ last.act = "sub" /\ use_new_structure /\ samples.some
      /\ ~NoRuleMatches(last.subsample, last.data)
      /\ FirstMatch(last.subsample, last.data).sample \notin Range(samples.val) ) =>
        /\ last.outcome = "filtered"
        /\ calls = last.cbefore
        /\ files = last.before
        /\ tfiles = last.tbefore
        /\ pc # "error"

C20_Witness ==
    /\ last.act = "sub" /\ last.outcome = "filtered" /\ use_new_structure
    /\ overwrite_sample
    /\ Has(last.before[last.year], last.sample)
    /\ last.before[last.year][last.sample] # EmptyDict
    /\ Lookup(fs, last.spath).ok
    /\ UrlsBelow(last.spath, 3) # <<>>

\* C21: for jetid_v12 and for jetid_v14, whatever the jet: when the
\* tight-lepton-veto flag is set the tight flag is set, and for a jet with
\* |eta| > 2.7 the two flags are equal.
C21_LepVetoImpliesTight ==
    jout.made =>
        /\ jout.flags.jetidtightlepveto => jout.flags.jetidtight
        /\ Gt(Abs(jets.jet.eta), 2700) =>
              jout.flags.jetidtightlepveto = jout.flags.jetidtight

C21_Witness ==
    /\ jout.made /\ jout.version = "v14"
    /\ Gt(Abs(jets.jet.eta), 2700) /\ jets.jet.eta.v < 0
    /\ jout.flags.jetidtight /\ jout.flags.jetidtightlepveto
    /\ ~Lt(jets.jet.muEF, 800)
    /\ ~TightV12(jets.jet)

====
